---- MODULE Spec2Model ----
(***************************************************************************)
(* TinyTasks frontend (app/frontend/src/App.tsx, api.ts): the React state  *)
(* of the App component, its event handlers and the continuations of      *)
(* their awaited network calls, composed with the REST service they call. *)
(*                                                                         *)
(* A step is one browser task: a UI event handler run to its first await, *)
(* the continuation of one settled promise (then/catch/finally, whose     *)
(* state updates React batches into one render), one timer callback, or   *)
(* one request handled by the server.  Handlers read the state of the     *)
(* latest render; values a continuation closes over are carried in the    *)
(* request record (field ed: editingId === task.id at click time).        *)
(*                                                                         *)
(* Not modelled: created_at / updated_at (display only), dark mode.       *)
(***************************************************************************)
EXTENDS Naturals, Sequences, FiniteSets

VARIABLES
    phase,          \* "loading" | "ready" | "error"  (loading, error)
    tasks,          \* useState<Task[]>: sequence of [id, title, done]
    newTitle,       \* text of the Add form input
    editingId,      \* id under inline edit, NoId for null
    editingTitle,   \* text of the inline edit input
    adding,         \* create in flight
    pendingToggle,  \* Set<string>
    pendingDelete,  \* Set<string>
    pendingSave,    \* Set<string>
    filter,         \* "all" | "open" | "done"
    appeared,       \* ids that finished the appear animation
    deletingVisual, \* ids currently fading out
    timers,         \* armed 180 ms removal timers: [id, ed]
    net,            \* network calls in flight
    srv,            \* tasks held by the REST service, newest first
    srvNext,        \* next id the service assigns
    out,            \* the alert dialog that is open and the error logged with it
    calls           \* network calls issued by user intents so far

vars == <<phase, tasks, newTitle, editingId, editingTitle, adding,
          pendingToggle, pendingDelete, pendingSave, filter, appeared,
          deletingVisual, timers, net, srv, srvNext, out, calls>>

\* Everything the App component holds (React state and armed timers).
ui == <<phase, tasks, newTitle, editingId, editingTitle, adding,
        pendingToggle, pendingDelete, pendingSave, filter, appeared,
        deletingVisual, timers>>

-----------------------------------------------------------------------------
(* Bounds *)

\* How many tasks the service holds when the page loads.
InitialCounts == {0, 1, 2}
\* Network calls the user's intents may issue in one run (the initial
\* list call is not counted).
MaxCalls == 2

\* Every id the service can come to assign within the bounds.
Ids == 1..(2 + MaxCalls)
NoId == 0

SP == " "
\* Texts the user may type into either input.
Typed == { <<SP>>, <<SP, "z", SP>> }

-----------------------------------------------------------------------------
(* Pure helpers *)

RECURSIVE TrimStart(_)
TrimStart(s) ==
    IF s # <<>> /\ Head(s) = SP THEN TrimStart(Tail(s)) ELSE s

RECURSIVE TrimEnd(_)
TrimEnd(s) ==
    IF s # <<>> /\ s[Len(s)] = SP THEN TrimEnd(SubSeq(s, 1, Len(s) - 1)) ELSE s

\* String.prototype.trim
Trim(s) == TrimEnd(TrimStart(s))

Task(i, t, d) == [id |-> i, title |-> t, done |-> d]

IdsOf(ts) == { ts[i].id : i \in DOMAIN ts }

TaskOf(ts, id) == ts[CHOOSE i \in DOMAIN ts : ts[i].id = id]

\* prev.map((t) => (t.id === id ? updated : t))
ReplaceById(ts, id, updated) ==
    [i \in DOMAIN ts |-> IF ts[i].id = id THEN updated ELSE ts[i]]

\* prev.filter((t) => t.id !== id)
RECURSIVE RemoveById(_, _)
RemoveById(ts, id) ==
    IF ts = <<>> THEN <<>>
    ELSE IF Head(ts).id = id THEN RemoveById(Tail(ts), id)
         ELSE <<Head(ts)>> \o RemoveById(Tail(ts), id)

\* a projection with the two restricted filters exchanged
RECURSIVE FilterTasks_swapped(_, _)
FilterTasks_swapped(ts, f) ==
    IF ts = <<>> THEN <<>>
    ELSE LET keep == IF f = "all" THEN TRUE
                     ELSE IF f = "done" THEN ~Head(ts).done
                     ELSE Head(ts).done
         IN  (IF keep THEN <<Head(ts)>> ELSE <<>>)
                \o FilterTasks_swapped(Tail(ts), f)

\* tasks.filter((t) => filter === "all" ? true : filter === "done" ? t.done : !t.done)
RECURSIVE FilterTasks(_, _)
FilterTasks(ts, f) ==
    IF ts = <<>> THEN <<>>
    ELSE LET keep == IF f = "all" THEN TRUE
                     ELSE IF f = "done" THEN Head(ts).done
                     ELSE ~Head(ts).done
         IN  (IF keep THEN <<Head(ts)>> ELSE <<>>) \o FilterTasks(Tail(ts), f)

visibleTasks == FilterTasks(tasks, filter)

Quiet == [alert |-> "", err |-> ""]
Alert(msg, e) == [alert |-> msg, err |-> e]

\* A call handed to fetch: what was sent, what its continuation closed over
\* (ed), and how far it got.  n tells apart calls of one kind on one id that
\* are in flight together.
Req(kind, id, title, done, ed) ==
    [kind |-> kind, id |-> id, title |-> title, done |-> done, ed |-> ed,
     n |-> Cardinality({ q \in net : q.kind = kind /\ q.id = id }),
     stage |-> "sent", status |-> 0, body |-> <<>>]

Answer(r, status, body) ==
    [r EXCEPT !.stage = "answered", !.status = status, !.body = body]

\* res.ok
Ok(r) == r.stage = "answered" /\ r.status \in 200..299

-----------------------------------------------------------------------------
(* Initial state: the component has mounted and issued GET /api/tasks *)

InitialSrv(k) ==
    IF k = 0 THEN <<>>
    ELSE IF k = 1 THEN << Task(1, <<"x">>, FALSE) >>
    ELSE << Task(2, <<"y">>, TRUE), Task(1, <<"x">>, FALSE) >>

Init ==
    /\ phase = "loading"
    /\ tasks = <<>>
    /\ newTitle = <<>>
    /\ editingId = NoId
    /\ editingTitle = <<>>
    /\ adding = FALSE
    /\ pendingToggle = {}
    /\ pendingDelete = {}
    /\ pendingSave = {}
    /\ filter = "all"
    /\ appeared = {}
    /\ deletingVisual = {}
    /\ timers = {}
    /\ \E k \in InitialCounts :
          /\ srv = InitialSrv(k)
          /\ srvNext = k + 1
    /\ net = { [kind |-> "list", id |-> NoId, title |-> <<>>, done |-> FALSE,
                ed |-> FALSE, n |-> 0, stage |-> "sent", status |-> 0,
                body |-> <<>>] }
    /\ out = Quiet
    /\ calls = 0

-----------------------------------------------------------------------------
(* Render: which controls of a task row exist and are enabled *)

Ready == phase = "ready"

\* the row of task id is in the rendered <ul>
RowShown(id) == Ready /\ id \in IdsOf(visibleTasks)

isEditing(id) == editingId = id
isToggling(id) == id \in pendingToggle
isDeleting(id) == id \in pendingDelete
isSaving(id) == id \in pendingSave
isFadingOut(id) == id \in deletingVisual

\* <button onClick={() => handleToggle(t)} disabled={isToggling || isFadingOut}>
ToggleDisabled(id) == isToggling(id) \/ isFadingOut(id)

\* <button onClick={() => handleDelete(t)} disabled={isDeleting || isFadingOut}>
DeleteDisabled(id) == isDeleting(id) \/ isFadingOut(id)

\* <button onClick={() => startEdit(t)}> carries no disabled attribute
EditDisabled(id) == FALSE

\* Save and Cancel: disabled={isSaving}
SaveDisabled(id) == isSaving(id)

\* the edit <input> (onChange, Enter, Escape) carries no disabled attribute
EditInputDisabled(id) == FALSE

-----------------------------------------------------------------------------
(* Initial load effect *)

fetchTasks_then(r) ==
    /\ tasks' = r.body
    /\ phase' = "ready"
    /\ net' = net \ {r}
    /\ out' = Quiet
    /\ UNCHANGED <<newTitle, editingId, editingTitle, adding, pendingToggle,
                   pendingDelete, pendingSave, filter, appeared,
                   deletingVisual, timers>>

fetchTasks_catch(r, e) ==
    /\ phase' = "error"
    /\ net' = net \ {r}
    /\ out' = Alert("", e)
    /\ UNCHANGED <<tasks, newTitle, editingId, editingTitle, adding,
                   pendingToggle, pendingDelete, pendingSave, filter,
                   appeared, deletingVisual, timers>>

\* Appear effect: the 0 ms timer armed by the latest render promotes every
\* listed id that has not appeared yet.
idsToSchedule == { id \in IdsOf(tasks) : id \notin appeared }

appearTick ==
    /\ idsToSchedule # {}
    /\ appeared' = appeared \cup idsToSchedule
    /\ out' = Quiet
    /\ UNCHANGED <<phase, tasks, newTitle, editingId, editingTitle, adding,
                   pendingToggle, pendingDelete, pendingSave, filter,
                   deletingVisual, timers, net>>

-----------------------------------------------------------------------------
(* Local inputs *)

setNewTitle(v) ==
    /\ newTitle' = v
    /\ out' = Quiet
    /\ UNCHANGED <<phase, tasks, editingId, editingTitle, adding,
                   pendingToggle, pendingDelete, pendingSave, filter,
                   appeared, deletingVisual, timers, net>>

setEditingTitle(v) ==
    /\ editingTitle' = v
    /\ out' = Quiet
    /\ UNCHANGED <<phase, tasks, newTitle, editingId, adding,
                   pendingToggle, pendingDelete, pendingSave, filter,
                   appeared, deletingVisual, timers, net>>

setFilter(f) ==
    /\ filter' = f
    /\ out' = Quiet
    /\ UNCHANGED <<phase, tasks, newTitle, editingId, editingTitle, adding,
                   pendingToggle, pendingDelete, pendingSave, appeared,
                   deletingVisual, timers, net>>

\* a startEdit that does not load the task's title into the input
startEdit_keepsText(id) ==
    /\ editingId' = id
    /\ out' = Quiet
    /\ UNCHANGED <<phase, tasks, newTitle, editingTitle, adding,
                   pendingToggle, pendingDelete, pendingSave, filter,
                   appeared, deletingVisual, timers, net>>

startEdit(id) ==
    /\ editingId' = id
    /\ editingTitle' = TaskOf(tasks, id).title
    /\ out' = Quiet
    /\ UNCHANGED <<phase, tasks, newTitle, adding, pendingToggle,
                   pendingDelete, pendingSave, filter, appeared,
                   deletingVisual, timers, net>>

cancelEdit ==
    /\ editingId' = NoId
    /\ editingTitle' = <<>>
    /\ out' = Quiet
    /\ UNCHANGED <<phase, tasks, newTitle, adding, pendingToggle,
                   pendingDelete, pendingSave, filter, appeared,
                   deletingVisual, timers, net>>

-----------------------------------------------------------------------------
(* Create *)

\* handleAddTask sending the input as typed
handleAddTask_untrimmed ==
    LET title == newTitle IN
    IF title = <<>> \/ adding
    THEN /\ out' = Quiet
         /\ UNCHANGED <<ui, net>>
    ELSE /\ adding' = TRUE
         /\ net' = net \cup { Req("create", NoId, title, FALSE, FALSE) }
         /\ out' = Quiet
         /\ UNCHANGED <<phase, tasks, newTitle, editingId, editingTitle,
                        pendingToggle, pendingDelete, pendingSave, filter,
                        appeared, deletingVisual, timers>>

handleAddTask ==
    LET title == Trim(newTitle) IN
    IF title = <<>> \/ adding
    THEN /\ out' = Quiet
         /\ UNCHANGED <<ui, net>>
    ELSE /\ adding' = TRUE
         /\ net' = net \cup { Req("create", NoId, title, FALSE, FALSE) }
         /\ out' = Quiet
         /\ UNCHANGED <<phase, tasks, newTitle, editingId, editingTitle,
                        pendingToggle, pendingDelete, pendingSave, filter,
                        appeared, deletingVisual, timers>>

\* a confirmation that appends the created task
handleAddTask_then_appends(r) ==
    LET created == r.body[1] IN
    /\ tasks' = tasks \o <<created>>
    /\ newTitle' = <<>>
    /\ appeared' = appeared \ {created.id}
    /\ adding' = FALSE
    /\ net' = net \ {r}
    /\ out' = Quiet
    /\ UNCHANGED <<phase, editingId, editingTitle, pendingToggle,
                   pendingDelete, pendingSave, filter, deletingVisual, timers>>

handleAddTask_then(r) ==
    LET created == r.body[1] IN
    /\ tasks' = <<created>> \o tasks
    /\ newTitle' = <<>>
    /\ appeared' = appeared \ {created.id}
    /\ adding' = FALSE
    /\ net' = net \ {r}
    /\ out' = Quiet
    /\ UNCHANGED <<phase, editingId, editingTitle, pendingToggle,
                   pendingDelete, pendingSave, filter, deletingVisual, timers>>

handleAddTask_catch(r, e) ==
    /\ adding' = FALSE
    /\ net' = net \ {r}
    /\ out' = Alert("Failed to create task", e)
    /\ UNCHANGED <<phase, tasks, newTitle, editingId, editingTitle,
                   pendingToggle, pendingDelete, pendingSave, filter,
                   appeared, deletingVisual, timers>>

-----------------------------------------------------------------------------
(* Toggle *)

\* a toggle that sends the done value as it stands
handleToggle_asIs(id) ==
    LET task == TaskOf(tasks, id) IN
    IF id \in pendingToggle
    THEN /\ out' = Quiet
         /\ UNCHANGED <<ui, net>>
    ELSE /\ pendingToggle' = pendingToggle \cup {id}
         /\ net' = net \cup { Req("toggle", id, <<>>, task.done, FALSE) }
         /\ out' = Quiet
         /\ UNCHANGED <<phase, tasks, newTitle, editingId, editingTitle,
                        adding, pendingDelete, pendingSave, filter, appeared,
                        deletingVisual, timers>>

handleToggle(id) ==
    LET task == TaskOf(tasks, id) IN
    IF id \in pendingToggle
    THEN /\ out' = Quiet
         /\ UNCHANGED <<ui, net>>
    ELSE /\ pendingToggle' = pendingToggle \cup {id}
         /\ net' = net \cup { Req("toggle", id, <<>>, ~task.done, FALSE) }
         /\ out' = Quiet
         /\ UNCHANGED <<phase, tasks, newTitle, editingId, editingTitle,
                        adding, pendingDelete, pendingSave, filter, appeared,
                        deletingVisual, timers>>

\* a confirmation that puts the returned object back when its id is gone
handleToggle_then_upserts(r) ==
    /\ tasks' = IF r.id \in IdsOf(tasks)
                THEN ReplaceById(tasks, r.id, r.body[1])
                ELSE <<r.body[1]>> \o tasks
    /\ pendingToggle' = pendingToggle \ {r.id}
    /\ net' = net \ {r}
    /\ out' = Quiet
    /\ UNCHANGED <<phase, newTitle, editingId, editingTitle, adding,
                   pendingDelete, pendingSave, filter, appeared,
                   deletingVisual, timers>>

\* a confirmation that inserts the returned object instead of replacing
handleToggle_then_inserts(r) ==
    /\ tasks' = <<r.body[1]>> \o tasks
    /\ pendingToggle' = pendingToggle \ {r.id}
    /\ net' = net \ {r}
    /\ out' = Quiet
    /\ UNCHANGED <<phase, newTitle, editingId, editingTitle, adding,
                   pendingDelete, pendingSave, filter, appeared,
                   deletingVisual, timers>>

handleToggle_then(r) ==
    /\ tasks' = ReplaceById(tasks, r.id, r.body[1])
    /\ pendingToggle' = pendingToggle \ {r.id}
    /\ net' = net \ {r}
    /\ out' = Quiet
    /\ UNCHANGED <<phase, newTitle, editingId, editingTitle, adding,
                   pendingDelete, pendingSave, filter, appeared,
                   deletingVisual, timers>>

\* the catch branch without withId's finally
handleToggle_catch_nofinally(r, e) ==
    /\ net' = net \ {r}
    /\ out' = Alert("Failed to update task status", e)
    /\ UNCHANGED <<phase, tasks, newTitle, editingId, editingTitle, adding,
                   pendingToggle, pendingDelete, pendingSave, filter,
                   appeared, deletingVisual, timers>>

handleToggle_catch(r, e) ==
    /\ pendingToggle' = pendingToggle \ {r.id}
    /\ net' = net \ {r}
    /\ out' = Alert("Failed to update task status", e)
    /\ UNCHANGED <<phase, tasks, newTitle, editingId, editingTitle, adding,
                   pendingDelete, pendingSave, filter, appeared,
                   deletingVisual, timers>>

-----------------------------------------------------------------------------
(* Delete *)

\* an optimistic handleDelete: the row is dropped before the call settles
handleDelete_optimistic(id, confirmed) ==
    IF id \in pendingDelete \/ ~confirmed
    THEN /\ out' = Quiet
         /\ UNCHANGED <<ui, net>>
    ELSE /\ pendingDelete' = pendingDelete \cup {id}
         /\ tasks' = RemoveById(tasks, id)
         /\ net' = net \cup { Req("delete", id, <<>>, FALSE, editingId = id) }
         /\ out' = Quiet
         /\ UNCHANGED <<phase, newTitle, editingId, editingTitle,
                        adding, pendingToggle, pendingSave, filter, appeared,
                        deletingVisual, timers>>

\* a handleDelete that does not wait for the answer of window.confirm
handleDelete_unasked(id, confirmed) ==
    IF id \in pendingDelete
    THEN /\ out' = Quiet
         /\ UNCHANGED <<ui, net>>
    ELSE /\ pendingDelete' = pendingDelete \cup {id}
         /\ net' = net \cup { Req("delete", id, <<>>, FALSE, editingId = id) }
         /\ out' = Quiet
         /\ UNCHANGED <<phase, tasks, newTitle, editingId, editingTitle,
                        adding, pendingToggle, pendingSave, filter, appeared,
                        deletingVisual, timers>>

\* confirmed: the answer of window.confirm
handleDelete(id, confirmed) ==
    IF id \in pendingDelete \/ ~confirmed
    THEN /\ out' = Quiet
         /\ UNCHANGED <<ui, net>>
    ELSE /\ pendingDelete' = pendingDelete \cup {id}
         /\ net' = net \cup { Req("delete", id, <<>>, FALSE, editingId = id) }
         /\ out' = Quiet
         /\ UNCHANGED <<phase, tasks, newTitle, editingId, editingTitle,
                        adding, pendingToggle, pendingSave, filter, appeared,
                        deletingVisual, timers>>

handleDelete_then(r) ==
    /\ deletingVisual' = deletingVisual \cup {r.id}
    /\ timers' = timers \cup { [id |-> r.id, ed |-> r.ed] }
    /\ pendingDelete' = pendingDelete \ {r.id}
    /\ net' = net \ {r}
    /\ out' = Quiet
    /\ UNCHANGED <<phase, tasks, newTitle, editingId, editingTitle, adding,
                   pendingToggle, pendingSave, filter, appeared>>

\* a timer callback that clears the fading flag but keeps the row
handleDelete_timer_keepsRow(tm) ==
    /\ deletingVisual' = deletingVisual \ {tm.id}
    /\ IF tm.ed
       THEN /\ editingId' = NoId
            /\ editingTitle' = <<>>
       ELSE UNCHANGED <<editingId, editingTitle>>
    /\ appeared' = appeared \ {tm.id}
    /\ timers' = timers \ {tm}
    /\ out' = Quiet
    /\ UNCHANGED <<phase, tasks, newTitle, adding, pendingToggle,
                   pendingDelete, pendingSave, filter, net>>

\* a timer callback that leaves the id in the appeared set
handleDelete_timer_keepsAppeared(tm) ==
    /\ tasks' = RemoveById(tasks, tm.id)
    /\ deletingVisual' = deletingVisual \ {tm.id}
    /\ IF tm.ed
       THEN /\ editingId' = NoId
            /\ editingTitle' = <<>>
       ELSE UNCHANGED <<editingId, editingTitle>>
    /\ timers' = timers \ {tm}
    /\ out' = Quiet
    /\ UNCHANGED <<phase, newTitle, adding, pendingToggle, pendingDelete,
                   pendingSave, filter, appeared, net>>

\* the setTimeout(..., 180) callback; tm.ed is the editingId === task.id of
\* the render in which Delete was clicked
handleDelete_timer(tm) ==
    /\ tasks' = RemoveById(tasks, tm.id)
    /\ deletingVisual' = deletingVisual \ {tm.id}
    /\ IF tm.ed
       THEN /\ editingId' = NoId
            /\ editingTitle' = <<>>
       ELSE UNCHANGED <<editingId, editingTitle>>
    /\ appeared' = appeared \ {tm.id}
    /\ timers' = timers \ {tm}
    /\ out' = Quiet
    /\ UNCHANGED <<phase, newTitle, adding, pendingToggle, pendingDelete,
                   pendingSave, filter, net>>

\* a failure path that empties the whole marker set
handleDelete_catch_clearsAll(r, e) ==
    /\ pendingDelete' = {}
    /\ net' = net \ {r}
    /\ out' = Alert("Failed to delete task", e)
    /\ UNCHANGED <<phase, tasks, newTitle, editingId, editingTitle, adding,
                   pendingToggle, pendingSave, filter, appeared,
                   deletingVisual, timers>>

handleDelete_catch(r, e) ==
    /\ pendingDelete' = pendingDelete \ {r.id}
    /\ net' = net \ {r}
    /\ out' = Alert("Failed to delete task", e)
    /\ UNCHANGED <<phase, tasks, newTitle, editingId, editingTitle, adding,
                   pendingToggle, pendingSave, filter, appeared,
                   deletingVisual, timers>>

-----------------------------------------------------------------------------
(* Rename *)

\* saveEdit without its pending guard
saveEdit_unguarded(id) ==
    LET title == Trim(editingTitle) IN
    IF title = <<>>
    THEN /\ out' = Quiet
         /\ UNCHANGED <<ui, net>>
    ELSE /\ pendingSave' = pendingSave \cup {id}
         /\ net' = net \cup { Req("rename", id, title, FALSE, FALSE) }
         /\ out' = Quiet
         /\ UNCHANGED <<phase, tasks, newTitle, editingId, editingTitle,
                        adding, pendingToggle, pendingDelete, filter,
                        appeared, deletingVisual, timers>>

saveEdit(id) ==
    LET title == Trim(editingTitle) IN
    IF title = <<>> \/ id \in pendingSave
    THEN /\ out' = Quiet
         /\ UNCHANGED <<ui, net>>
    ELSE /\ pendingSave' = pendingSave \cup {id}
         /\ net' = net \cup { Req("rename", id, title, FALSE, FALSE) }
         /\ out' = Quiet
         /\ UNCHANGED <<phase, tasks, newTitle, editingId, editingTitle,
                        adding, pendingToggle, pendingDelete, filter,
                        appeared, deletingVisual, timers>>

saveEdit_then(r) ==
    /\ tasks' = ReplaceById(tasks, r.id, r.body[1])
    /\ editingId' = NoId
    /\ editingTitle' = <<>>
    /\ pendingSave' = pendingSave \ {r.id}
    /\ net' = net \ {r}
    /\ out' = Quiet
    /\ UNCHANGED <<phase, newTitle, adding, pendingToggle, pendingDelete,
                   filter, appeared, deletingVisual, timers>>

\* a catch branch that resets the edit state like the success branch
saveEdit_catch_resets(r, e) ==
    /\ editingId' = NoId
    /\ editingTitle' = <<>>
    /\ pendingSave' = pendingSave \ {r.id}
    /\ net' = net \ {r}
    /\ out' = Alert("Failed to update title", e)
    /\ UNCHANGED <<phase, tasks, newTitle, adding, pendingToggle,
                   pendingDelete, filter, appeared, deletingVisual, timers>>

saveEdit_catch(r, e) ==
    /\ pendingSave' = pendingSave \ {r.id}
    /\ net' = net \ {r}
    /\ out' = Alert("Failed to update title", e)
    /\ UNCHANGED <<phase, tasks, newTitle, editingId, editingTitle, adding,
                   pendingToggle, pendingDelete, filter, appeared,
                   deletingVisual, timers>>

-----------------------------------------------------------------------------
(* The REST service (section 6 of the specification): it handles one      *)
(* request at a time, in any order, and answers with the stored object.   *)

Server_list(r) ==
    /\ net' = (net \ {r}) \cup { Answer(r, 200, srv) }
    /\ UNCHANGED <<srv, srvNext>>

Server_create(r) ==
    LET t == Task(srvNext, r.title, FALSE) IN
    /\ srv' = <<t>> \o srv
    /\ srvNext' = srvNext + 1
    /\ net' = (net \ {r}) \cup { Answer(r, 201, <<t>>) }

Server_patch(r) ==
    IF r.id \in IdsOf(srv)
    THEN LET old == TaskOf(srv, r.id)
             new == IF r.kind = "toggle" THEN [old EXCEPT !.done = r.done]
                    ELSE [old EXCEPT !.title = r.title]
         IN  /\ srv' = ReplaceById(srv, r.id, new)
             /\ net' = (net \ {r}) \cup { Answer(r, 200, <<new>>) }
             /\ UNCHANGED srvNext
    ELSE /\ net' = (net \ {r}) \cup { Answer(r, 404, <<>>) }
         /\ UNCHANGED <<srv, srvNext>>

Server_delete(r) ==
    IF r.id \in IdsOf(srv)
    THEN /\ srv' = RemoveById(srv, r.id)
         /\ net' = (net \ {r}) \cup { Answer(r, 204, <<>>) }
         /\ UNCHANGED srvNext
    ELSE /\ net' = (net \ {r}) \cup { Answer(r, 404, <<>>) }
         /\ UNCHANGED <<srv, srvNext>>

Server_handle(r) ==
    /\ r.stage = "sent"
    /\ IF r.kind = "list" THEN Server_list(r)
       ELSE IF r.kind = "create" THEN Server_create(r)
       ELSE IF r.kind = "delete" THEN Server_delete(r)
       ELSE Server_patch(r)

\* a non-2xx answer that changes nothing at the service (5xx)
Server_error(r) ==
    /\ r.stage = "sent"
    /\ UNCHANGED <<srv, srvNext>>

-----------------------------------------------------------------------------
(* Settling of a call: the continuation that runs in the component *)

then_(r) ==
    IF r.kind = "list" THEN fetchTasks_then(r)
    ELSE IF r.kind = "create" THEN handleAddTask_then(r)
    ELSE IF r.kind = "toggle" THEN handleToggle_then(r)
    ELSE IF r.kind = "delete" THEN handleDelete_then(r)
    ELSE saveEdit_then(r)

catch_(r, e) ==
    IF r.kind = "list" THEN fetchTasks_catch(r, e)
    ELSE IF r.kind = "create" THEN handleAddTask_catch(r, e)
    ELSE IF r.kind = "toggle" THEN handleToggle_catch(r, e)
    ELSE IF r.kind = "delete" THEN handleDelete_catch(r, e)
    ELSE saveEdit_catch(r, e)

\* if (!res.ok) throw new Error(`... HTTP ${res.status}: ...`)
HttpError(r) == IF r.status = 404 THEN "HTTP 404" ELSE "HTTP 500"

-----------------------------------------------------------------------------
(* Steps *)

\* window.alert is modal: until the user dismisses it no handler, timer or
\* continuation of the page runs.
NoDialog == out.alert = ""

Local == UNCHANGED <<srv, srvNext, calls>>

\* an intent that may issue a network call
Sends ==
    /\ calls' = calls + (IF Cardinality(net') > Cardinality(net) THEN 1 ELSE 0)
    /\ UNCHANGED <<srv, srvNext>>

TypeNewTitle == NoDialog /\ \E v \in Typed : Ready /\ setNewTitle(v) /\ Local

SubmitAdd == NoDialog /\ Ready /\ calls < MaxCalls /\ handleAddTask /\ Sends

ClickFilter ==
    NoDialog /\ \E f \in {"all", "open", "done"} : Ready /\ setFilter(f) /\ Local

ClickEdit ==
    NoDialog /\ \E id \in Ids :
        /\ RowShown(id) /\ ~isEditing(id) /\ ~EditDisabled(id)
        /\ startEdit(id) /\ Local

TypeEditingTitle ==
    NoDialog /\ \E id \in Ids, v \in Typed :
        /\ RowShown(id) /\ isEditing(id) /\ ~EditInputDisabled(id)
        /\ setEditingTitle(v) /\ Local

ClickSave ==
    NoDialog /\ \E id \in Ids :
        /\ RowShown(id) /\ isEditing(id) /\ ~SaveDisabled(id)
        /\ calls < MaxCalls /\ saveEdit(id) /\ Sends

KeyEnter ==
    NoDialog /\ \E id \in Ids :
        /\ RowShown(id) /\ isEditing(id) /\ ~EditInputDisabled(id)
        /\ calls < MaxCalls /\ saveEdit(id) /\ Sends

ClickCancel ==
    NoDialog /\ \E id \in Ids :
        /\ RowShown(id) /\ isEditing(id) /\ ~SaveDisabled(id)
        /\ cancelEdit /\ Local

KeyEscape ==
    NoDialog /\ \E id \in Ids :
        /\ RowShown(id) /\ isEditing(id) /\ ~EditInputDisabled(id)
        /\ cancelEdit /\ Local

ClickToggle ==
    NoDialog /\ \E id \in Ids :
        /\ RowShown(id) /\ ~ToggleDisabled(id)
        /\ calls < MaxCalls /\ handleToggle(id) /\ Sends

ClickDelete ==
    NoDialog /\ \E id \in Ids, confirmed \in BOOLEAN :
        /\ RowShown(id) /\ ~DeleteDisabled(id)
        /\ calls < MaxCalls /\ handleDelete(id, confirmed) /\ Sends

AppearTick == NoDialog /\ appearTick /\ Local

GraceElapsed == NoDialog /\ \E tm \in timers : handleDelete_timer(tm) /\ Local

ServerHandles ==
    \E r \in net : Server_handle(r) /\ UNCHANGED <<ui, out, calls>>

\* A 5xx answer and its receipt are one step: the service keeps no trace of
\* it, so the states in between would differ from "sent" in that call's
\* record alone.
ServerFails ==
    NoDialog /\ \E r \in net :
        Server_error(r) /\ catch_(r, HttpError(Answer(r, 500, <<>>)))
            /\ UNCHANGED calls

Resolved == NoDialog /\ \E r \in net : Ok(r) /\ then_(r) /\ Local

Rejected ==
    NoDialog /\ \E r \in net :
        /\ r.stage = "answered" /\ ~Ok(r)
        /\ catch_(r, HttpError(r)) /\ Local

\* fetchWithTimeout: the AbortController fires before fetch settled
TimedOut == NoDialog /\ \E r \in net : catch_(r, "timeout") /\ Local

DismissAlert ==
    /\ ~NoDialog
    /\ out' = Quiet
    /\ UNCHANGED <<ui, net, srv, srvNext, calls>>

Next ==
    \/ TypeNewTitle
    \/ SubmitAdd
    \/ ClickEdit
    \/ TypeEditingTitle
    \/ ClickSave
    \/ KeyEnter
    \/ ClickCancel
    \/ KeyEscape
    \/ ClickToggle
    \/ ClickDelete
    \/ GraceElapsed
    \/ DismissAlert
    \/ ServerHandles
    \/ ServerFails
    \/ Resolved
    \/ Rejected
    \/ TimedOut

Spec == Init /\ [][Next]_vars

\* The 180 ms timer of a confirmed delete fires: the component stays mounted
\* and the event loop runs again once the user has dismissed an open alert.
SpecFair == Spec /\ WF_vars(GraceElapsed) /\ WF_vars(DismissAlert)

\* Runs in which the user only edits, renames and toggles and every call is
\* answered 2xx and received: no id leaves the service, nothing fails.
NextConfirmed ==
    \/ ClickEdit
    \/ TypeEditingTitle
    \/ ClickSave
    \/ KeyEnter
    \/ ClickCancel
    \/ KeyEscape
    \/ ClickToggle
    \/ ServerHandles
    \/ Resolved

SpecConfirmed == Init /\ [][NextConfirmed]_vars

-----------------------------------------------------------------------------
(* Vocabulary of the claims *)

InFlight(kind, id) == { r \in net : r.kind = kind /\ r.id = id }

InList(id) == id \in IdsOf(tasks)

\* no call is in flight and no marker is set
Quiescent ==
    /\ Ready
    /\ net = {}
    /\ ~adding
    /\ pendingToggle = {} /\ pendingDelete = {} /\ pendingSave = {}

\* the step reconciles the failure of call r
FailureOf(r) == r \in net /\ r \notin net' /\ out.err = "" /\ out'.err # ""

FailureAlert(kind) ==
    IF kind = "create" THEN "Failed to create task"
    ELSE IF kind = "toggle" THEN "Failed to update task status"
    ELSE IF kind = "delete" THEN "Failed to delete task"
    ELSE "Failed to update title"

\* the step receives the 2xx answer of call r
ConfirmationOf(r) == r \in net /\ Ok(r) /\ r \notin net' /\ out'.err = ""

Blank(s) == Trim(s) = <<>>

-----------------------------------------------------------------------------
(* C1: at most one call per (task id, kind) and at most one create is in   *)
(* flight at any instant; an add, toggle, delete or rename intent issued   *)
(* while its (id, kind) is pending changes no state and sends nothing.     *)

C1_AtMostOne ==
    /\ Cardinality(InFlight("create", NoId)) <= 1
    /\ \A id \in Ids :
          /\ Cardinality(InFlight("toggle", id)) <= 1
          /\ Cardinality(InFlight("delete", id)) <= 1
          /\ Cardinality(InFlight("rename", id)) <= 1

C1_PendingRejects ==
    /\ (adding /\ handleAddTask) => UNCHANGED <<ui, net>>
    /\ \A id \in IdsOf(tasks) :
          /\ (id \in pendingToggle /\ handleToggle(id)) => UNCHANGED <<ui, net>>
          /\ (id \in pendingDelete /\ handleDelete(id, TRUE))
                => UNCHANGED <<ui, net>>
          /\ (id \in pendingSave /\ saveEdit(id)) => UNCHANGED <<ui, net>>

C1_OneInFlight == []C1_AtMostOne /\ [][C1_PendingRejects]_vars

\* a rename is pending on the task under edit and Enter can be pressed again
C1_Witness ==
    \E id \in Ids :
        /\ RowShown(id) /\ isEditing(id) /\ id \in pendingSave
        /\ ~Blank(editingTitle) /\ calls < MaxCalls
        /\ Cardinality(InFlight("rename", id)) = 1

-----------------------------------------------------------------------------
(* C2: when every toggle and rename call was confirmed and nothing is      *)
(* pending any more, each listed task has the title and done value the     *)
(* service holds for its id.                                               *)

C2_NoLostUpdate ==
    Quiescent =>
        \A i \in DOMAIN tasks :
            /\ tasks[i].id \in IdsOf(srv)
            /\ TaskOf(srv, tasks[i].id) = tasks[i]

-----------------------------------------------------------------------------
(* C3: an Edit Draft, if present, references a task of the canonical list. *)

C3_DraftInList == editingId # NoId => InList(editingId)

-----------------------------------------------------------------------------
(* C4: when the failure of a toggle call is reconciled, the task's done is *)
(* the value it had when the toggle was issued (the call carried its       *)
(* inverse), whatever else was pending or settled in between.              *)

C4_RoundTrip ==
    \A r \in net :
        (r.kind = "toggle" /\ FailureOf(r) /\ r.id \in IdsOf(tasks'))
            => TaskOf(tasks', r.id).done = ~r.done

C4_ToggleFailureRestores == [][C4_RoundTrip]_vars

-----------------------------------------------------------------------------
(* C5: reconciling the failure of a create, toggle, rename or delete call  *)
(* clears that call's pending marker, leaves the canonical list (and all   *)
(* other component state) as it was and shows the operation's alert, in    *)
(* the same way for a timeout, a 404 and any other non-2xx answer.         *)

C5_MarkerCleared(r) ==
    /\ r.kind = "create" =>
          /\ ~adding'
          /\ UNCHANGED <<pendingToggle, pendingDelete, pendingSave>>
    /\ r.kind = "toggle" =>
          /\ pendingToggle' = pendingToggle \ {r.id}
          /\ UNCHANGED <<adding, pendingDelete, pendingSave>>
    /\ r.kind = "delete" =>
          /\ pendingDelete' = pendingDelete \ {r.id}
          /\ UNCHANGED <<adding, pendingToggle, pendingSave>>
    /\ r.kind = "rename" =>
          /\ pendingSave' = pendingSave \ {r.id}
          /\ UNCHANGED <<adding, pendingToggle, pendingDelete>>

C5_FailurePath ==
    \A r \in net :
        (r.kind # "list" /\ FailureOf(r)) =>
            /\ out'.err \in {"timeout", "HTTP 404", "HTTP 500"}
            /\ out'.alert = FailureAlert(r.kind)
            /\ C5_MarkerCleared(r)
            /\ UNCHANGED <<phase, tasks, newTitle, editingId, editingTitle,
                           filter, appeared, deletingVisual, timers>>

C5_FailureReconciled == [][C5_FailurePath]_vars

\* the scenario of the specification: toggle on the only task timed out
C5_Witness ==
    /\ out = Alert("Failed to update task status", "timeout")
    /\ tasks = << Task(1, <<"x">>, FALSE) >>
    /\ pendingToggle = {}
    /\ net = {}

-----------------------------------------------------------------------------
(* C6: reconciling the failure of a rename call leaves the Edit Draft (id  *)
(* and typed text) as it was, and the draft can be typed into and saved    *)
(* again.                                                                  *)

C6_DraftKept ==
    \A r \in net :
        (r.kind = "rename" /\ FailureOf(r)) =>
            /\ UNCHANGED <<editingId, editingTitle>>
            /\ ~SaveDisabled(r.id)'
            /\ ~EditInputDisabled(r.id)'

C6_RenameFailureKeepsDraft == [][C6_DraftKept]_vars

\* a rename has just failed and the text typed (padding included) is there
C6_Witness ==
    /\ out.alert = "Failed to update title"
    /\ editingId = 1
    /\ editingTitle = <<SP, "z", SP>>
    /\ RowShown(1)
    /\ pendingSave = {}

-----------------------------------------------------------------------------
(* C7: a task id leaves the canonical list only while it is fading, that   *)
(* is after the service confirmed its delete; when a delete call fails the *)
(* id is not fading, no removal is armed and the task stays listed and     *)
(* interactive.                                                            *)

C7_LeavesOnlyConfirmed ==
    \A id \in Ids :
        (InList(id) /\ id \notin IdsOf(tasks')) =>
            /\ id \in deletingVisual
            /\ id \notin IdsOf(srv)
            /\ \E tm \in timers : tm.id = id

C7_FailureKeeps(r) ==
    /\ r.id \notin deletingVisual'
    /\ \A tm \in timers' : tm.id # r.id
    /\ tasks' = tasks
    /\ r.id \in IdsOf(tasks')

\* as claimed: toggle, edit and delete are all enabled after the failure
C7_AllEnabled ==
    \A r \in net :
        (r.kind = "delete" /\ FailureOf(r)) =>
            /\ C7_FailureKeeps(r)
            /\ ~ToggleDisabled(r.id)'
            /\ ~EditDisabled(r.id)'
            /\ ~SaveDisabled(r.id)'
            /\ ~DeleteDisabled(r.id)'

C7_NeverSpeculativeAllEnabled ==
    [][C7_LeavesOnlyConfirmed /\ C7_AllEnabled]_vars

\* as amended: a control is disabled only by a call of its own kind that is
\* still pending on the id
C7_EnabledUnlessOwnCall ==
    \A r \in net :
        (r.kind = "delete" /\ FailureOf(r)) =>
            /\ C7_FailureKeeps(r)
            /\ ToggleDisabled(r.id)' <=> isToggling(r.id)'
            /\ ~EditDisabled(r.id)'
            /\ SaveDisabled(r.id)' <=> isSaving(r.id)'
            /\ ~DeleteDisabled(r.id)'

C7_NeverSpeculative ==
    [][C7_LeavesOnlyConfirmed /\ C7_EnabledUnlessOwnCall]_vars

\* a delete has just failed on a listed task
C7_Witness ==
    /\ out.alert = "Failed to delete task"
    /\ InList(1) /\ RowShown(1)
    /\ ~DeleteDisabled(1)
    /\ timers = {}

-----------------------------------------------------------------------------
(* C8: a confirmed delete first marks the id fading while it is still      *)
(* listed; no id stays fading for ever, and the step that ends the fading  *)
(* (the grace delay elapsing) takes the id out of the list and the fading  *)
(* set together; entering and leaving the fading state change no other     *)
(* task's entry, position, pending markers or fading state.                *)

C8_FadingIsListed == \A id \in deletingVisual : InList(id)

C8_OthersUntouched(id) ==
    /\ RemoveById(tasks', id) = RemoveById(tasks, id)
    /\ pendingToggle' \ {id} = pendingToggle \ {id}
    /\ pendingDelete' \ {id} = pendingDelete \ {id}
    /\ pendingSave' \ {id} = pendingSave \ {id}
    /\ deletingVisual' \ {id} = deletingVisual \ {id}

C8_FadeSteps ==
    \A id \in Ids :
        /\ (id \notin deletingVisual /\ id \in deletingVisual') =>
              /\ tasks' = tasks
              /\ InList(id)
              /\ id \notin IdsOf(srv)
              /\ C8_OthersUntouched(id)
        /\ (id \in deletingVisual /\ id \notin deletingVisual') =>
              /\ id \notin IdsOf(tasks')
              /\ C8_OthersUntouched(id)

C8_FadeThenRemove ==
    /\ []C8_FadingIsListed
    /\ [][C8_FadeSteps]_vars
    /\ \A id \in Ids : []<>(id \notin deletingVisual)

\* the scenario of the specification: t1 of [t2, t1] was deleted and is gone
C8_Witness ==
    /\ tasks = << Task(2, <<"y">>, TRUE) >>
    /\ srv = << Task(2, <<"y">>, TRUE) >>
    /\ deletingVisual = {}
    /\ timers = {}
    /\ pendingDelete = {}

-----------------------------------------------------------------------------
(* C9: while a task id is fading no toggle, edit or delete intent starts   *)
(* on it: no draft is opened on it and no call is issued for it.           *)

C9_NoIntent ==
    \A id \in deletingVisual :
        /\ ~(editingId # id /\ editingId' = id)
        /\ \A r \in net' \ net : r.stage = "sent" => r.id # id

C9_FadingNotInteractive == [][C9_NoIntent]_vars

-----------------------------------------------------------------------------
(* C10: every create and rename call in flight carries a trimmed,          *)
(* non-empty title, and so does every task the service stores and every    *)
(* task of the canonical list.                                             *)

C10_Clean(t) == ~Blank(t) /\ Trim(t) = t

C10_TitlesNonEmpty ==
    /\ \A r \in net : r.kind \in {"create", "rename"} => C10_Clean(r.title)
    /\ \A i \in DOMAIN srv : C10_Clean(srv[i].title)
    /\ \A i \in DOMAIN tasks : C10_Clean(tasks[i].title)

\* a task created from the padded text is listed under the trimmed text, and
\* a blank draft and a blank Add input can be submitted next
C10_Witness ==
    /\ \E i \in DOMAIN tasks : tasks[i].id = 1 /\ tasks[i].title = <<"z">>
    /\ newTitle = <<SP>>
    /\ editingId = 1 /\ editingTitle = <<SP>>
    /\ calls < MaxCalls

-----------------------------------------------------------------------------
(* C11: in every reachable state no two entries of the canonical list have *)
(* the same id, the service assigning each id once.                        *)

C11_NoDuplicateIds ==
    \A i, j \in DOMAIN tasks : tasks[i].id = tasks[j].id => i = j

\* two loaded tasks, one of them toggled since, under a created third
C11_Witness ==
    /\ Len(tasks) = 3
    /\ tasks[1].id = 3
    /\ tasks[2] = Task(2, <<"y">>, FALSE)
    /\ tasks[3].id = 1
    /\ net = {}

-----------------------------------------------------------------------------
(* C12: the step that receives a confirmed create puts the returned task   *)
(* (done = false, the title sent) in front of the canonical list, the      *)
(* entries already there keeping their order, and empties the title input; *)
(* the step that reconciles a failed create leaves the list as it was; the *)
(* list is newest first throughout (ids are assigned in creation order).   *)

C12_CreateSteps ==
    \A r \in net :
        r.kind = "create" =>
            /\ ConfirmationOf(r) =>
                  /\ Len(r.body) = 1
                  /\ r.body[1].title = r.title
                  /\ r.body[1].done = FALSE
                  /\ tasks' = <<r.body[1]>> \o tasks
                  /\ newTitle' = <<>>
            /\ FailureOf(r) => tasks' = tasks

C12_NewestFirst ==
    \A i, j \in DOMAIN tasks : i < j => tasks[i].id > tasks[j].id

C12_CreatePrepends == []C12_NewestFirst /\ [][C12_CreateSteps]_vars

\* the scenario of the specification: the first task of an empty list
C12_Witness ==
    /\ tasks = << Task(1, <<"z">>, FALSE) >>
    /\ srv = tasks
    /\ newTitle = <<>>
    /\ ~adding
    /\ net = {}

-----------------------------------------------------------------------------
(* C13: the step that receives a confirmed toggle or rename puts the       *)
(* returned object in the place of the entry with that id, every other     *)
(* entry and every position staying as they were, and clears that (id,     *)
(* kind) marker; a toggle call, when issued, carries the inverse of the    *)
(* done value the list holds for the task.                                 *)

C13_Replaced(r) ==
    /\ Len(r.body) = 1
    /\ r.body[1].id = r.id
    /\ Len(tasks') = Len(tasks)
    /\ \A i \in DOMAIN tasks :
          tasks'[i] = IF tasks[i].id = r.id THEN r.body[1] ELSE tasks[i]

C13_Confirmations ==
    \A r \in net :
        /\ (r.kind = "toggle" /\ ConfirmationOf(r)) =>
              /\ C13_Replaced(r)
              /\ r.body[1].done = r.done
              /\ r.id \in pendingToggle
              /\ pendingToggle' = pendingToggle \ {r.id}
        /\ (r.kind = "rename" /\ ConfirmationOf(r)) =>
              /\ C13_Replaced(r)
              /\ r.body[1].title = r.title
              /\ r.id \in pendingSave
              /\ pendingSave' = pendingSave \ {r.id}

C13_SendsInverse ==
    \A r \in net' \ net :
        (r.kind = "toggle" /\ r.stage = "sent") =>
            /\ InList(r.id)
            /\ r.done = ~TaskOf(tasks, r.id).done

C13_ReplaceById == [][C13_Confirmations /\ C13_SendsInverse]_vars

\* the second entry has been toggled and renamed, both confirmed
C13_Witness ==
    /\ tasks = << Task(2, <<"y">>, TRUE), Task(1, <<"z">>, TRUE) >>
    /\ srv = tasks
    /\ pendingToggle = {} /\ pendingSave = {}
    /\ net = {}

-----------------------------------------------------------------------------
(* C14: the step that reconciles a failed call leaves, for every other     *)
(* task id, the canonical entry and the toggle, delete and rename markers  *)
(* as they were, and for the call's own id the markers of the other kinds. *)

C14_SameEntry(id) ==
    /\ InList(id) <=> id \in IdsOf(tasks')
    /\ InList(id) => TaskOf(tasks', id) = TaskOf(tasks, id)

C14_SameMarker(kind, id) ==
    IF kind = "toggle" THEN id \in pendingToggle' <=> id \in pendingToggle
    ELSE IF kind = "delete" THEN id \in pendingDelete' <=> id \in pendingDelete
    ELSE id \in pendingSave' <=> id \in pendingSave

C14_Frame ==
    \A r \in net :
        (r.kind # "list" /\ FailureOf(r)) =>
            \A id \in Ids, kind \in {"toggle", "delete", "rename"} :
                /\ id # r.id => C14_SameEntry(id)
                /\ (id # r.id \/ kind # r.kind) => C14_SameMarker(kind, id)

C14_FailureIsLocal == [][C14_Frame]_vars

\* a toggle has just failed while a delete on task 2 is still pending
C14_Witness ==
    /\ out.alert = "Failed to update task status"
    /\ pendingDelete = {2}
    /\ pendingToggle = {}
    /\ Len(tasks) = 2

-----------------------------------------------------------------------------
(* The transport in detail (fetchWithTimeout and the body read after it).  *)
(* fetch settles when the response head has arrived; its finally clears    *)
(* the abort timer; res.json() / res.text() then read the body.            *)

\* return await fetch(input, {signal}) ... finally { clearTimeout(t) }
fetchWithTimeout_returns(r) ==
    /\ r.stage = "answered"
    /\ net' = (net \ {r}) \cup { [r EXCEPT !.stage = "headers"] }
    /\ UNCHANGED <<ui, out>>

\* setTimeout(() => controller.abort(), timeoutMs) fires while fetch is
\* unsettled: fetch rejects with AbortError, rethrown as "Request timed out"
fetchWithTimeout_aborts(r) ==
    /\ r.stage \in {"sent", "answered"}
    /\ catch_(r, "timeout")

\* the body has been read: if (!res.ok) throw ...; return await res.json()
readBody(r) ==
    /\ r.stage = "headers"
    /\ IF r.status \in 200..299 THEN then_(r) ELSE catch_(r, HttpError(r))

FetchReturns == NoDialog /\ \E r \in net : fetchWithTimeout_returns(r) /\ Local

AbortFires == NoDialog /\ \E r \in net : fetchWithTimeout_aborts(r) /\ Local

BodyRead == NoDialog /\ \E r \in net : readBody(r) /\ Local

NextTransport ==
    \/ TypeNewTitle
    \/ SubmitAdd
    \/ ClickEdit
    \/ ClickSave
    \/ ClickToggle
    \/ ClickDelete
    \/ GraceElapsed
    \/ DismissAlert
    \/ ServerHandles
    \/ FetchReturns
    \/ AbortFires
    \/ BodyRead

\* The abort timer of an unsettled fetch fires and an open alert is
\* dismissed; nothing is assumed of the service or the network.
SpecTransport ==
    /\ Init
    /\ [][NextTransport]_vars
    /\ WF_vars(AbortFires)
    /\ WF_vars(GraceElapsed)
    /\ WF_vars(DismissAlert)

-----------------------------------------------------------------------------
(* C15: every call the client issues settles: the load leaves "loading",   *)
(* the create flag and every (id, kind) marker that is set is cleared      *)
(* again, whatever the service and the network do.                         *)

C15_EveryCallSettles ==
    /\ (phase = "loading") ~> (phase # "loading")
    /\ adding ~> ~adding
    /\ \A id \in Ids :
          /\ (id \in pendingToggle) ~> (id \notin pendingToggle)
          /\ (id \in pendingDelete) ~> (id \notin pendingDelete)
          /\ (id \in pendingSave) ~> (id \notin pendingSave)

-----------------------------------------------------------------------------
(* Runs in which the user answers every "Delete task?" dialog with Cancel  *)

DeclineDelete ==
    NoDialog /\ \E id \in Ids :
        /\ RowShown(id) /\ ~DeleteDisabled(id)
        /\ calls < MaxCalls /\ handleDelete(id, FALSE) /\ Sends

NextDeclined ==
    \/ TypeNewTitle
    \/ SubmitAdd
    \/ ClickEdit
    \/ TypeEditingTitle
    \/ ClickSave
    \/ KeyEnter
    \/ ClickCancel
    \/ KeyEscape
    \/ ClickToggle
    \/ DeclineDelete
    \/ DismissAlert
    \/ ServerHandles
    \/ ServerFails
    \/ Resolved
    \/ TimedOut

SpecDeclined == Init /\ [][NextDeclined]_vars

-----------------------------------------------------------------------------
(* C16: when the user declines every delete confirmation, no delete call   *)
(* is ever in flight, no id is ever marked pending for delete or fading,   *)
(* no task is removed, and a declined Delete click changes nothing.        *)

C16_NoDeleteCall ==
    /\ \A r \in net : r.kind # "delete"
    /\ pendingDelete = {}
    /\ deletingVisual = {}
    /\ timers = {}

C16_Declined ==
    /\ (\E id \in IdsOf(tasks) : handleDelete(id, FALSE)) => UNCHANGED <<ui, net>>
    /\ Len(tasks') >= Len(tasks)
    /\ Len(srv') >= Len(srv)

C16_DeleteOnlyConfirmed == []C16_NoDeleteCall /\ [][C16_Declined]_vars

\* Delete can be clicked on a task while a toggle on it is pending
C16_Witness ==
    /\ RowShown(1) /\ ~DeleteDisabled(1)
    /\ calls < MaxCalls
    /\ pendingToggle = {1}
    /\ C16_NoDeleteCall

-----------------------------------------------------------------------------
(* Runs in which the user also switches the filter; every call is          *)
(* answered and received.                                                  *)

NextFilter ==
    \/ ClickFilter
    \/ TypeNewTitle
    \/ SubmitAdd
    \/ ClickToggle
    \/ ClickDelete
    \/ GraceElapsed
    \/ ServerHandles
    \/ Resolved

SpecFilter == Init /\ [][NextFilter]_vars

-----------------------------------------------------------------------------
(* C17: the visible projection is the canonical list restricted, in        *)
(* canonical order, to all tasks, the tasks not done, or the tasks done;   *)
(* a step that changes the filter leaves the canonical list (and the rest  *)
(* of the component) as it was, and under "all" every task is visible.     *)

C17_All(t) == TRUE
C17_Open(t) == ~t.done
C17_Done(t) == t.done

C17_Restriction ==
    /\ FilterTasks(tasks, "all") = SelectSeq(tasks, C17_All)
    /\ FilterTasks(tasks, "all") = tasks
    /\ FilterTasks(tasks, "open") = SelectSeq(tasks, C17_Open)
    /\ FilterTasks(tasks, "done") = SelectSeq(tasks, C17_Done)
    /\ filter \in {"all", "open", "done"}
    /\ visibleTasks = FilterTasks(tasks, filter)

C17_SwitchKeepsList ==
    filter' # filter =>
        /\ tasks' = tasks
        /\ net' = net
        /\ UNCHANGED <<phase, newTitle, editingId, editingTitle, adding,
                       pendingToggle, pendingDelete, pendingSave, appeared,
                       deletingVisual, timers>>
        /\ filter' = "all" => visibleTasks' = tasks

C17_FilterIsProjection == []C17_Restriction /\ [][C17_SwitchKeepsList]_vars

\* the scenario of the specification: "open" on [not done, done]
C17_Witness ==
    /\ filter = "open"
    /\ Len(tasks) = 2
    /\ ~tasks[1].done /\ tasks[2].done
    /\ visibleTasks = << tasks[1] >>

-----------------------------------------------------------------------------
(* C18: there is one Edit Draft at most; a step that opens a draft issues  *)
(* no call, leaves the canonical list and every pending marker as they     *)
(* were and sets the draft to the task's id with its canonical title; a    *)
(* step that discards the draft without a call settling or a timer firing  *)
(* (Cancel, Escape) does the same and leaves no draft text.                *)

C18_OneDraft ==
    /\ editingId \in Ids \cup {NoId}
    /\ editingId = NoId => editingTitle = <<>>

C18_Local ==
    /\ net' = net
    /\ tasks' = tasks
    /\ UNCHANGED <<adding, pendingToggle, pendingDelete, pendingSave>>

C18_DraftSteps ==
    /\ (editingId' # editingId /\ editingId' # NoId) =>
          /\ C18_Local
          /\ InList(editingId')
          /\ editingTitle' = TaskOf(tasks, editingId').title
    /\ (editingId # NoId /\ editingId' = NoId /\ net' = net /\ timers' = timers) =>
          /\ C18_Local
          /\ editingTitle' = <<>>

C18_EditIsLocal == []C18_OneDraft /\ [][C18_DraftSteps]_vars

\* a draft opened on task 1 while a toggle on it is pending
C18_Witness ==
    /\ editingId = 1
    /\ editingTitle = <<"x">>
    /\ InList(1) /\ TaskOf(tasks, 1).title = <<"x">>
    /\ pendingToggle = {1}
    /\ Cardinality(net) = 1

-----------------------------------------------------------------------------
(* Runs with the appear effect (the inline edit left aside): its 0 ms      *)
(* timer fires, like the removal timer, once the event loop is free.       *)

NextAppear ==
    \/ AppearTick
    \/ TypeNewTitle
    \/ SubmitAdd
    \/ ClickToggle
    \/ ClickDelete
    \/ GraceElapsed
    \/ DismissAlert
    \/ ServerHandles
    \/ Resolved
    \/ Rejected
    \/ TimedOut

SpecAppear ==
    /\ Init
    /\ [][NextAppear]_vars
    /\ WF_vars(AppearTick)
    /\ WF_vars(GraceElapsed)
    /\ WF_vars(DismissAlert)

-----------------------------------------------------------------------------
(* C19: an id that enters the canonical list (load or confirmed create) is *)
(* not in the appeared set then; it is put there by a later step that      *)
(* changes nothing of the list, and no listed id stays out of the set for  *)
(* ever; an id that leaves the list leaves the set in the same step, so    *)
(* only listed ids are ever in it.                                         *)

C19_SettledAreListed == appeared \subseteq IdsOf(tasks)

C19_Steps ==
    \A id \in Ids :
        /\ (~InList(id) /\ id \in IdsOf(tasks')) => id \notin appeared'
        /\ (InList(id) /\ id \notin IdsOf(tasks')) => id \notin appeared'
        /\ (id \notin appeared /\ id \in appeared') =>
              /\ InList(id)
              /\ tasks' = tasks

C19_Appearance ==
    /\ []C19_SettledAreListed
    /\ [][C19_Steps]_vars
    /\ \A id \in Ids : []<>(~InList(id) \/ id \in appeared)

\* the two loaded tasks have appeared, the task created since has not yet
C19_Witness ==
    /\ Len(tasks) = 3
    /\ tasks[1].id = 3
    /\ appeared = {1, 2}

-----------------------------------------------------------------------------
(* C20: the step that receives the confirmation of a rename of one task    *)
(* leaves a draft that is open on another task (id and typed text) as it   *)
(* was.                                                                    *)

C20_OtherDraftKept ==
    \A r \in net :
        (r.kind = "rename" /\ ConfirmationOf(r)
            /\ editingId # NoId /\ editingId # r.id)
                => UNCHANGED <<editingId, editingTitle>>

C20_RenameClearsOwnDraft == [][C20_OtherDraftKept]_vars

-----------------------------------------------------------------------------
(* C21: the step in which the grace delay of a deleted task elapses and    *)
(* the task leaves the canonical list changes the Edit Draft only if the   *)
(* draft is on that task then: a draft open on another task (id and typed  *)
(* text) stays as it was.                                                  *)

C21_OtherDraftKept ==
    \A id \in deletingVisual :
        (id \notin IdsOf(tasks') /\ editingId # id)
            => UNCHANGED <<editingId, editingTitle>>

C21_RemovalClearsOwnDraft == [][C21_OtherDraftKept]_vars

-----------------------------------------------------------------------------
(* C22: the step that receives the answer (confirmation or failure) of a   *)
(* toggle or rename call whose id is no longer in the canonical list       *)
(* leaves the list as it was; an id that is not listed enters the list     *)
(* only with the load or with the confirmation of a create returning it.   *)

C22_LateAnswer ==
    \A r \in net :
        (r.kind \in {"toggle", "rename"} /\ r \notin net' /\ ~InList(r.id))
            => tasks' = tasks

C22_EntersByCreate ==
    \A id \in Ids :
        (~InList(id) /\ id \in IdsOf(tasks')) =>
            \E r \in net :
                /\ r.kind \in {"list", "create"}
                /\ ConfirmationOf(r)
                /\ id \in IdsOf(r.body)
                /\ r.kind = "list" => phase = "loading"

C22_NoReinsert == [][C22_LateAnswer /\ C22_EntersByCreate]_vars

\* the only task was deleted and removed while a toggle on it was pending;
\* the toggle's failure has just been received
C22_Witness ==
    /\ Ready
    /\ tasks = <<>>
    /\ srv = <<>>
    /\ out.alert = "Failed to update task status"
    /\ pendingToggle = {}
    /\ deletingVisual = {} /\ timers = {}

====
